---- MODULE Spec2Model ----
(***************************************************************************)
(* Host orchestrator of vibecheck-pro (main.js): the Electron main process *)
(* that launches the Flask sidecar, proxies analyze-file requests to it    *)
(* and drives the electron-updater life cycle.                             *)
(*                                                                         *)
(* The Electron runtime, the child process, the release feed, the user     *)
(* answering dialogs and the HTTP transport are the environment: each of   *)
(* their events is one action whose body is the handler main.js registers  *)
(* for it.                                                                 *)
(***************************************************************************)
EXTENDS Integers, Sequences, FiniteSets, TLC

(* ----------------------------- bounds --------------------------------- *)
\* startFlaskServer calls modelled per application run
MaxStarts == 2
\* requests to the release feed modelled per application run
MaxChecks == 2
\* download-progress events modelled per application run
MaxProgress == 1
\* analyze-file calls modelled per application run
MaxCalls == 2

(* --------------------------- configuration ---------------------------- *)
\* main.js:20
autoDownload == FALSE
\* main.js:21
autoInstallOnAppQuit == TRUE

VARIABLES
    env,            \* process.platform, NODE_ENV, process.resourcesPath, the disk
    appState,       \* "launching" | "running" | "exited"
    mainWindow,     \* "undefined" | "live" | "destroyed"
    flaskProcess,   \* 0 (undefined) or the index in starts of the child it holds
    starts,         \* one record per startFlaskServer call
    checking,       \* a request to the release feed is in flight
    downloading,    \* a download of the update is in flight
    updateDownloaded, \* an update is downloaded and pending installation
    cycles,         \* one record per request to the release feed
    downloadCalls,  \* cycles whose prompt handler called downloadUpdate
    installPrompts, \* answers of the install prompts, in the order shown
    quitAndInstallBy, \* the handlers that called autoUpdater.quitAndInstall
    installedOnQuit,  \* the pending update was installed when the app quit
    updateErrorBoxes, \* dialog.showErrorBox('Update Error', ...) calls
    statusLog,      \* update-status strings delivered to the window, in order
    progressSent,   \* update-progress events delivered to the window
    sendFaults,     \* webContents.send calls on a missing or destroyed window
    unhandled,      \* promise rejections no handler was attached to
    calls,          \* one record per analyze-file call
    lastReturn,     \* the latest value an analyze-file call returned
    infoReturn,     \* how the latest get-file-info invocation completed
    dialogOpen,     \* the open-file dialog of select-file is showing
    handleFiles,    \* one record per handleFile() run of the renderer
    errorShown,     \* the renderer's error element is displayed
    launchOrder     \* the steps of the latest createWindow(), in order

hostVars == <<env, appState, mainWindow>>
sidecarVars == <<flaskProcess, starts>>
updaterVars == <<checking, downloading, updateDownloaded, cycles, downloadCalls,
                 installPrompts, quitAndInstallBy, installedOnQuit,
                 updateErrorBoxes, statusLog, progressSent, sendFaults, unhandled>>
rendererVars == <<infoReturn, dialogOpen, handleFiles, errorShown>>
vars == <<env, appState, mainWindow, flaskProcess, starts, checking, downloading,
          updateDownloaded, cycles, downloadCalls, installPrompts,
          quitAndInstallBy, installedOnQuit, updateErrorBoxes, statusLog,
          progressSent, sendFaults, unhandled, calls, lastReturn, infoReturn,
          dialogOpen, handleFiles, errorShown, launchOrder>>

(* -------------------------- the environment --------------------------- *)
Platforms == {"darwin", "win32", "linux"}

\* In development mode the resources path and the disk are not consulted.
Envs ==
    [platform : Platforms, isDev : {TRUE}, resourcesPath : {TRUE}, pythonOnDisk : {TRUE}]
    \cup
    {e \in [platform : Platforms, isDev : {FALSE}, resourcesPath : BOOLEAN,
            pythonOnDisk : BOOLEAN] : e.pythonOnDisk => e.resourcesPath}

(* ----------------------- ProcessSupervisor ---------------------------- *)
\* getPythonPath(): the interpreter to spawn, or the Error it throws.
getPythonPath(e) ==
    IF e.isDev
    THEN [threw |-> FALSE,
          value |-> IF e.platform = "win32" THEN "python" ELSE "python3"]
    ELSE IF ~e.resourcesPath
    THEN [threw |-> TRUE, value |-> "Resources path not found"]
    ELSE IF ~e.pythonOnDisk
    THEN [threw |-> TRUE, value |-> "Python executable not found"]
    ELSE [threw |-> FALSE,
          value |-> IF e.platform = "win32"
                    THEN "resources/python/Scripts/python.exe"
                    ELSE "resources/python/bin/python3"]

\* What child_process.spawn can come back with: a running child, or a child
\* whose 'error' event (ENOENT, EACCES, ...) is queued for the next tick.
SpawnOutcomes == {"running", "errorPending"}

\* startFlaskServer with a catch block that only logs.
startFlaskServerSilent(e, outcome) ==
    LET p == getPythonPath(e) IN
    IF p.threw
    THEN [status |-> "resolveFailed", spawned |-> FALSE, path |-> "", dialogs |-> 0,
          signalled |-> FALSE]
    ELSE [status |-> outcome, spawned |-> TRUE, path |-> p.value, dialogs |-> 0,
          signalled |-> FALSE]

\* The record of one startFlaskServer() call whose spawn came back as `outcome`:
\* the catch block reports a throw of getPythonPath with one error box.
startFlaskServer(e, outcome) ==
    LET p == getPythonPath(e) IN
    IF p.threw
    THEN [status |-> "resolveFailed", spawned |-> FALSE, path |-> "", dialogs |-> 1,
          signalled |-> FALSE]
    ELSE [status |-> outcome, spawned |-> TRUE, path |-> p.value, dialogs |-> 0,
          signalled |-> FALSE]

\* ServiceProcessState as the spec names it, read off the latest start.
ServiceState ==
    IF starts = <<>> THEN "NotStarted"
    ELSE LET s == starts[Len(starts)] IN
         CASE s.status = "running" /\ ~s.signalled -> "Running"
           [] s.status = "running" /\ s.signalled -> "Stopped"
           [] s.status = "errorPending" -> "Starting"
           [] s.status = "exited" -> "Stopped"
           [] OTHER -> "Failed"

(* ------------------------- UpdateController --------------------------- *)
\* mainWindow.webContents.send('update-status', msg) on window `win`: the
\* string is delivered to a live window; on a missing or destroyed one the
\* call throws.
Delivered(win, log, msg) == IF win = "live" THEN Append(log, msg) ELSE log
Faults(win, n) == IF win = "live" THEN n ELSE n + 1

FeedRequests == Cardinality({i \in DOMAIN cycles : cycles[i].request})

\* The state of the spec's UpdateController, read off the updater.
Checking == checking
Downloading == downloading

\* autoUpdater.checkForUpdates() with window `win`; `caught` tells whether the
\* caller attaches a .catch to the promise (checkForUpdates(), main.js:109-113)
\* or not (the timer, main.js:238-240).  The updater hands a caller the
\* promise of the check in flight when there is one; otherwise it emits
\* 'checking-for-update' (main.js:212-214) and queries the feed.  When the
\* handler throws, the updater emits 'error' (main.js:145-147, 224-226) and
\* rejects without having queried the feed.
autoUpdaterCheckForUpdates(win, caught) ==
    IF checking
    THEN /\ cycles' = [cycles EXCEPT ![Len(cycles)].caught = @ \/ caught]
         /\ UNCHANGED <<checking, statusLog, sendFaults, updateErrorBoxes, unhandled>>
    ELSE IF win = "live"
    THEN /\ checking' = TRUE
         /\ cycles' = Append(cycles, [status |-> "checking", request |-> TRUE,
                                      caught |-> caught])
         /\ statusLog' = Append(statusLog, "Checking for updates...")
         /\ UNCHANGED <<sendFaults, updateErrorBoxes, unhandled>>
    ELSE /\ checking' = FALSE
         /\ cycles' = Append(cycles, [status |-> "emitFailed", request |-> FALSE,
                                      caught |-> caught])
         /\ sendFaults' = sendFaults + 2
         /\ updateErrorBoxes' = updateErrorBoxes + 1
         /\ unhandled' = IF caught THEN unhandled ELSE unhandled + 1
         /\ UNCHANGED statusLog

\* The bound on the requests modelled: a call that joins the check in flight
\* adds none.
CanCheck == checking \/ Len(cycles) < MaxChecks

(* --------------------------- AnalysisGateway -------------------------- *)
\* JavaScript values as they arrive in the sidecar's JSON: "undefined" for a
\* missing field, "true" and "false" for the booleans, "s:..." for a string
\* ("s:" is the empty string).
Undefined == "undefined"
Strings ==
    {"s:", "s:/reports/sample.html", "s:bad format", "s:yes",
     "s:Analysis failed", "s:Failed to analyze file",
     "s:Cannot read properties of null",
     "s:Request failed with status code 500", "s:connect ECONNREFUSED",
     "s:ENOENT: no such file or directory"}
IsString(v) == v \in Strings
\* JavaScript truthiness, as `if (v)` and `v || d` read it.
Truthy(v) == v \notin {Undefined, "false", "null", "s:"}
\* a || d
OrElse(a, d) == IF Truthy(a) THEN a ELSE d

SuccessValues == {"true", "false", Undefined, "s:yes"}
ReportPathValues == {Undefined, "s:", "s:/reports/sample.html"}
ErrorValues == {Undefined, "s:", "s:bad format"}

\* response.data of a 2xx response: a JSON object, the JSON value null, or
\* text that is not JSON (axios hands it over as the raw string).
Bodies ==
    [kind : {"object"}, success : SuccessValues, reportPath : ReportPathValues,
     error : ErrorValues]
    \cup
    [kind : {"null", "string"}, success : {Undefined}, reportPath : {Undefined},
     error : {Undefined}]

\* error.message of a rejected axios.post: a non-2xx status, a refused
\* connection (whose message can be empty), an unreadable file.
TransportErrors ==
    [kind : {"error"}, cause : {"status"}, message : {"s:Request failed with status code 500"}]
    \cup
    [kind : {"error"}, cause : {"refused"}, message : {"s:connect ECONNREFUSED", "s:"}]
    \cup
    [kind : {"error"}, cause : {"file"}, message : {"s:ENOENT: no such file or directory"}]

\* Everything the awaited axios.post (main.js:185-189) can settle with.
Replies == [kind : {"response"}, body : Bodies] \cup TransportErrors

Failure(msg) == [success |-> FALSE, path |-> Undefined, error |-> msg]
Success(p) == [success |-> TRUE, path |-> p, error |-> Undefined]

\* analyzeResult reading response.data.path, a field the sidecar never sends.
analyzeResultWrongField(reply) ==
    IF reply.kind = "error"
    THEN Failure(OrElse(reply.message, "s:Failed to analyze file"))
    ELSE IF reply.body.kind = "null"
    THEN Failure("s:Cannot read properties of null")
    ELSE IF Truthy(reply.body.success)
    THEN Success(Undefined)
    ELSE Failure(OrElse(reply.body.error, "s:Analysis failed"))

\* The value the 'analyze-file' handler returns once axios.post has settled
\* with `reply` (main.js:191-208).
analyzeResult(reply) ==
    IF reply.kind = "error"
    THEN Failure(OrElse(reply.message, "s:Failed to analyze file"))
    ELSE IF reply.body.kind = "null"
    THEN \* response.data.success throws a TypeError, caught at main.js:202
         Failure("s:Cannot read properties of null")
    ELSE IF Truthy(reply.body.success)
    THEN Success(reply.body.reportPath)
    ELSE Failure(OrElse(reply.body.error, "s:Analysis failed"))

\* The handler without its catch block: a rejected POST rejects the invoke.
analyzeFileHandlerNoCatch(reply) ==
    [threw |-> reply.kind = "error",
     value |-> IF reply.kind = "error" THEN Failure(Undefined) ELSE analyzeResult(reply)]

\* How the 'analyze-file' invocation completes: the whole body is inside
\* try/catch (main.js:181-208), so the invoke resolves with the result object
\* and is never rejected.
analyzeFileHandler(reply) ==
    [threw |-> FALSE, value |-> analyzeResult(reply)]

NoReturn ==
    [id |-> 0, upload |-> 0, reply |-> [kind |-> "none"], threw |-> FALSE,
     result |-> Failure(Undefined)]

\* ipcMain.handle('analyze-file'), up to its await: the multipart body is
\* built and one POST is issued (main.js:181-189), whatever the state of the
\* sidecar.
postsIssued(svc) == 1

AnalyzeFile ==
    /\ appState = "running"
    /\ mainWindow = "live"
    /\ Len(calls) < MaxCalls
    /\ calls' = Append(calls, [state |-> "pending", posts |-> postsIssued(ServiceState)])
    /\ UNCHANGED <<hostVars, sidecarVars, updaterVars, lastReturn, rendererVars,
                   launchOrder>>

\* A handler that posts once more after a transport error.
retriesAfterOnError(reply) == IF reply.kind = "error" THEN 1 ELSE 0

\* Further POSTs the handler issues once the first has settled: the catch
\* block and both branches after the await only build the return value
\* (main.js:191-208).
retriesAfter(reply) == 0

\* A gateway with one shared slot for the awaited response: whichever upload
\* settles, the call that has waited longest is the one resumed.
resumesOldestPending(cs, i) ==
    CHOOSE j \in DOMAIN cs :
        /\ cs[j].state = "pending"
        /\ \A k \in DOMAIN cs : cs[k].state = "pending" => j <= k

\* The invocation that goes on when upload i settles: `response` is a local
\* of the async handler (main.js:185), so the await resumes the invocation
\* that issued the POST.
resumes(cs, i) == i

\* A handler that loses the settled upload: the call is given up and the
\* invoke never completes.
AnalyzeSettleDropped(i, reply) ==
    /\ appState = "running"
    /\ calls[i].state = "pending"
    /\ calls' = [calls EXCEPT ![i].state = "dropped"]
    /\ UNCHANGED <<hostVars, sidecarVars, updaterVars, lastReturn, rendererVars,
                   launchOrder>>

\* The POST of call i settles with `reply`; the handler returns its result
\* (main.js:191-208).
AnalyzeSettle(i, reply) ==
    /\ appState = "running"
    /\ calls[i].state = "pending"
    /\ calls' = [calls EXCEPT ![resumes(calls, i)].state = "returned",
                              ![resumes(calls, i)].posts = @ + retriesAfter(reply)]
    /\ lastReturn' = [id |-> resumes(calls, i), upload |-> i, reply |-> reply,
                      threw |-> analyzeFileHandler(reply).threw,
                      result |-> analyzeFileHandler(reply).value]
    /\ UNCHANGED <<hostVars, sidecarVars, updaterVars, rendererVars, launchOrder>>

(* ------------------------------ FileInfo ------------------------------ *)
\* A path is a sequence of tokens: the two separator characters, a drive
\* prefix, and runs of ordinary characters.
MaxPathLen == 3
PathTokens == {"/", "\\", "C:", "dir", "sample", ".ide"}
Paths == UNION {[1..n -> PathTokens] : n \in 1..MaxPathLen}

\* What the disk holds at a path when fs.promises.stat looks (main.js:167).
DiskEntries ==
    [kind : {"missing", "denied"}, size : {0}, mtime : {"never"}]
    \cup
    [kind : {"file"}, size : {0, 1024}, mtime : {"t1"}]

\* path.sep handling of path.basename: '/' everywhere, '\' on win32 only.
isPathSeparator(platform, t) == t = "/" \/ (platform = "win32" /\ t = "\\")

MaxOf(S) == CHOOSE m \in S : \A x \in S : x <= m

\* path.basename(filePath) (main.js:169), as node computes it: scan from the
\* end, skip trailing separators, stop at the separator before the last
\* component; on win32 a drive prefix is never part of the result.
basename(platform, p) ==
    LET first == IF platform = "win32" /\ p[1] = "C:" THEN 2 ELSE 1
        named == {i \in first..Len(p) : ~isPathSeparator(platform, p[i])}
        end == IF named = {} THEN 0 ELSE MaxOf(named)
        seps == {i \in first..end : isPathSeparator(platform, p[i])}
        start == IF seps = {} THEN first ELSE MaxOf(seps) + 1
    IN  IF end = 0 THEN <<>> ELSE SubSeq(p, start, end)

\* The paths that can name a regular file on the platform: the last token is
\* part of a file name, and a drive prefix appears only in front on win32.
NamesFile(platform, p) ==
    /\ ~isPathSeparator(platform, p[Len(p)])
    /\ platform = "win32" => \A i \in 1..Len(p) : p[i] = "C:" => (i = 1 /\ Len(p) > 1)

AllFields == {"name", "size", "lastModified"}
NoFileInfo == [fields |-> {}, name |-> <<>>, size |-> 0, lastModified |-> "never"]

\* get-file-info answering a missing file with a half-filled object.
getFileInfoPartial(platform, p, entry) ==
    IF entry.kind = "file"
    THEN [threw |-> FALSE, error |-> "none",
          value |-> [fields |-> AllFields, name |-> basename(platform, p),
                     size |-> entry.size, lastModified |-> entry.mtime]]
    ELSE [threw |-> FALSE, error |-> "none",
          value |-> [NoFileInfo EXCEPT !.fields = {"name"},
                                       !.name = basename(platform, p)]]

\* get-file-info reporting the whole path as the name and no size.
getFileInfoWholePath(platform, p, entry) ==
    IF entry.kind = "file"
    THEN [threw |-> FALSE, error |-> "none",
          value |-> [fields |-> AllFields, name |-> p,
                     size |-> 0, lastModified |-> entry.mtime]]
    ELSE [threw |-> TRUE,
          error |-> IF entry.kind = "missing" THEN "ENOENT" ELSE "EACCES",
          value |-> NoFileInfo]

\* ipcMain.handle('get-file-info') (main.js:165-177): stat resolves and the
\* object literal is returned, or stat rejects and the catch logs and
\* rethrows, which rejects the renderer's invoke.
getFileInfo(platform, p, entry) ==
    IF entry.kind = "file"
    THEN [threw |-> FALSE, error |-> "none",
          value |-> [fields |-> AllFields, name |-> basename(platform, p),
                     size |-> entry.size, lastModified |-> entry.mtime]]
    ELSE [threw |-> TRUE,
          error |-> IF entry.kind = "missing" THEN "ENOENT" ELSE "EACCES",
          value |-> NoFileInfo]

NoInfo ==
    [path |-> <<>>, entry |-> [kind |-> "none", size |-> 0, mtime |-> "never"],
     threw |-> FALSE, error |-> "none", value |-> NoFileInfo]

\* One get-file-info invocation from the renderer, from invoke to completion.
\* The handler keeps no state, so the first invocation of a run stands for
\* every one of them.
GetFileInfo ==
    /\ appState = "running"
    /\ mainWindow = "live"
    /\ infoReturn = NoInfo
    /\ \E p \in Paths, entry \in DiskEntries :
          /\ entry.kind = "file" => NamesFile(env.platform, p)
          /\ infoReturn' = [path |-> p, entry |-> entry,
                            threw |-> getFileInfo(env.platform, p, entry).threw,
                            error |-> getFileInfo(env.platform, p, entry).error,
                            value |-> getFileInfo(env.platform, p, entry).value]
    /\ UNCHANGED <<hostVars, sidecarVars, updaterVars, calls, lastReturn, dialogOpen,
                   handleFiles, errorShown, launchOrder>>

(* ------------------------------ renderer ------------------------------ *)
\* What dialog.showOpenDialog resolves with (main.js:150-155).
DialogResults ==
    [canceled : BOOLEAN, filePaths : {<<>>, << <<"/", "sample", ".ide">> >>}]

\* The value the 'select-file' handler returns (main.js:157-160): the first
\* chosen path, or null.
selectFile(result) ==
    IF ~result.canceled /\ Len(result.filePaths) > 0
    THEN [null |-> FALSE, path |-> result.filePaths[1]]
    ELSE [null |-> TRUE, path |-> <<>>]

\* e.dataTransfer.files[0] of a drop (index.html:252): nothing, an .ide file,
\* or some other file.
DroppedFiles ==
    {[present |-> FALSE, name |-> <<>>, path |-> <<>>],
     [present |-> TRUE, name |-> <<"sample", ".ide">>, path |-> <<"/", "sample", ".ide">>],
     [present |-> TRUE, name |-> <<"dir">>, path |-> <<"/", "dir">>]}

endsWith(name, suffix) == Len(name) > 0 /\ name[Len(name)] = suffix

\* handleFile(filePath) up to its first await (index.html:261-268): the error
\* element is hidden and get-file-info is invoked. Nothing looks at the runs
\* already pending.
handleFile(filePath) ==
    /\ Len(handleFiles) < MaxCalls
    /\ handleFiles' = Append(handleFiles, [path |-> filePath, phase |-> "info", call |-> 0])
    /\ errorShown' = FALSE

\* A handleFile run between its start and its finally block.
InFlight(h) ==
    \/ handleFiles[h].phase = "info"
    \/ handleFiles[h].phase = "analyze" /\ calls[handleFiles[h].call].state = "pending"

\* Click on the select button (index.html:232-233): select-file is invoked
\* and the open dialog, modal to the window, shows.
SelectFileClick ==
    /\ appState = "running"
    /\ mainWindow = "live"
    /\ ~dialogOpen
    /\ dialogOpen' = TRUE
    /\ UNCHANGED <<hostVars, sidecarVars, updaterVars, calls, lastReturn, infoReturn,
                   handleFiles, errorShown, launchOrder>>

\* The dialog closes, select-file returns, and the click handler goes on
\* (index.html:233-236).
SelectFileSettle(result) ==
    /\ appState = "running"
    /\ dialogOpen
    /\ dialogOpen' = FALSE
    /\ IF ~selectFile(result).null /\ selectFile(result).path # <<>>
       THEN handleFile(selectFile(result).path)
       ELSE UNCHANGED <<handleFiles, errorShown>>
    /\ UNCHANGED <<hostVars, sidecarVars, updaterVars, calls, lastReturn, infoReturn,
                   launchOrder>>

\* Drop on the drop zone (index.html:248-259).
Drop(file) ==
    /\ appState = "running"
    /\ mainWindow = "live"
    /\ ~dialogOpen
    /\ IF file.present /\ endsWith(file.name, ".ide")
       THEN handleFile(file.path)
       ELSE errorShown' = TRUE /\ UNCHANGED handleFiles
    /\ UNCHANGED <<hostVars, sidecarVars, updaterVars, calls, lastReturn, infoReturn,
                   dialogOpen, launchOrder>>

\* The get-file-info invoked by run h completes (index.html:268): a rejection
\* goes to the catch, which shows the error; otherwise analyze-file is invoked
\* (index.html:281, main.js:180-189).
HandleFileInfoSettle(h, entry) ==
    LET p == handleFiles[h].path
        r == getFileInfo(env.platform, p, entry)
    IN  /\ appState = "running"
        /\ handleFiles[h].phase = "info"
        /\ entry.kind = "file" => NamesFile(env.platform, p)
        /\ infoReturn' = [path |-> p, entry |-> entry, threw |-> r.threw,
                          error |-> r.error, value |-> r.value]
        /\ IF r.threw
           THEN /\ handleFiles' = [handleFiles EXCEPT ![h].phase = "done"]
                /\ errorShown' = TRUE
                /\ UNCHANGED calls
           ELSE /\ calls' = Append(calls, [state |-> "pending",
                                           posts |-> postsIssued(ServiceState)])
                /\ handleFiles' = [handleFiles EXCEPT ![h].phase = "analyze",
                                                      ![h].call = Len(calls) + 1]
                /\ UNCHANGED errorShown
        /\ UNCHANGED <<hostVars, sidecarVars, updaterVars, lastReturn, dialogOpen,
                       launchOrder>>

(* --------------------------- HostOrchestrator ------------------------- *)
\* createWindow() asking the release feed before it builds the window.
createWindowCheckFirst(outcome) ==
    LET s == startFlaskServer(env, outcome) IN
    /\ mainWindow' = "live"
    /\ starts' = Append(starts, s)
    /\ flaskProcess' = IF s.spawned THEN Len(starts) + 1 ELSE flaskProcess
    /\ autoUpdaterCheckForUpdates(mainWindow, TRUE)
    /\ launchOrder' = <<[op |-> "checkForUpdates", window |-> mainWindow],
                        [op |-> "BrowserWindow", window |-> mainWindow],
                        [op |-> "startFlaskServer", window |-> "live"]>>

\* createWindow(): a new BrowserWindow, then startFlaskServer(), then
\* checkForUpdates().
createWindow(outcome) ==
    LET s == startFlaskServer(env, outcome) IN
    /\ mainWindow' = "live"
    /\ starts' = Append(starts, s)
    /\ flaskProcess' = IF s.spawned THEN Len(starts) + 1 ELSE flaskProcess
    /\ autoUpdaterCheckForUpdates("live", TRUE)
    /\ launchOrder' = <<[op |-> "BrowserWindow", window |-> mainWindow],
                        [op |-> "startFlaskServer", window |-> "live"],
                        [op |-> "checkForUpdates", window |-> "live"]>>

Init ==
    /\ env \in Envs
    /\ appState = "launching"
    /\ mainWindow = "undefined"
    /\ flaskProcess = 0
    /\ starts = <<>>
    /\ checking = FALSE
    /\ downloading = FALSE
    /\ updateDownloaded = FALSE
    /\ cycles = <<>>
    /\ downloadCalls = {}
    /\ installPrompts = <<>>
    /\ quitAndInstallBy = {}
    /\ installedOnQuit = FALSE
    /\ updateErrorBoxes = 0
    /\ statusLog = <<>>
    /\ progressSent = 0
    /\ sendFaults = 0
    /\ unhandled = 0
    /\ calls = <<>>
    /\ lastReturn = NoReturn
    /\ infoReturn = NoInfo
    /\ dialogOpen = FALSE
    /\ handleFiles = <<>>
    /\ errorShown = FALSE
    /\ launchOrder = <<>>

\* app.whenReady().then(createWindow)
AppReady ==
    /\ appState = "launching"
    /\ appState' = "running"
    /\ \E outcome \in SpawnOutcomes : createWindow(outcome)
    /\ UNCHANGED <<env, downloading, updateDownloaded, downloadCalls, installPrompts,
                   quitAndInstallBy, installedOnQuit, progressSent, calls, lastReturn,
                   rendererVars>>

\* app.on('activate'): macOS re-activation of the running application.
Activate ==
    /\ appState = "running"
    /\ env.platform = "darwin"
    /\ mainWindow # "live"
    /\ Len(starts) < MaxStarts
    /\ CanCheck
    /\ \E outcome \in SpawnOutcomes : createWindow(outcome)
    /\ UNCHANGED <<env, appState, downloading, updateDownloaded, downloadCalls,
                   installPrompts, quitAndInstallBy, installedOnQuit, progressSent,
                   calls, lastReturn, rendererVars>>

\* flaskProcess.kill(): a signal reaches a child that is still running.
kill(ss, i) == [ss EXCEPT ![i].signalled = @ \/ (ss[i].status = "running")]

\* app.on('before-quit') (main.js:256-260): the children signalled when the
\* handler has run with handle `fp`.
beforeQuit(ss, fp) == IF fp # 0 THEN kill(ss, fp) ELSE ss

\* app.quit(): Electron emits 'before-quit', closes the windows and the
\* process exits; a downloaded update is installed on the way out when
\* autoInstallOnAppQuit is set or quitAndInstall() asked for it.
quit(install) ==
    /\ appState' = "exited"
    /\ starts' = beforeQuit(starts, flaskProcess)
    /\ mainWindow' = IF mainWindow = "live" THEN "destroyed" ELSE mainWindow
    /\ installedOnQuit' = (install \/ (updateDownloaded /\ autoInstallOnAppQuit))
    /\ UNCHANGED <<env, flaskProcess>>

\* The user closes the window; Electron emits 'window-all-closed', whose
\* handler (main.js:244-248) calls app.quit() except on macOS.
WindowAllClosed ==
    /\ appState = "running"
    /\ mainWindow = "live"
    /\ IF env.platform # "darwin"
       THEN quit(FALSE)
       ELSE /\ mainWindow' = "destroyed"
            /\ UNCHANGED <<env, appState, sidecarVars, installedOnQuit>>
    /\ UNCHANGED <<checking, downloading, updateDownloaded, cycles, downloadCalls,
                   installPrompts, quitAndInstallBy, updateErrorBoxes, statusLog,
                   progressSent, sendFaults, unhandled, calls, lastReturn,
                   rendererVars, launchOrder>>

\* The user quits the application (menu, Cmd+Q): app.quit().
UserQuit ==
    /\ appState = "running"
    /\ quit(FALSE)
    /\ UNCHANGED <<checking, downloading, updateDownloaded, cycles, downloadCalls,
                   installPrompts, quitAndInstallBy, updateErrorBoxes, statusLog,
                   progressSent, sendFaults, unhandled, calls, lastReturn,
                   rendererVars, launchOrder>>

\* flaskProcess.on('error'): the spawn of child i failed.
ChildError(i) ==
    /\ appState = "running"
    /\ starts[i].status = "errorPending"
    /\ starts' = [starts EXCEPT ![i].status = "failed", ![i].dialogs = @ + 1]
    /\ UNCHANGED <<hostVars, flaskProcess, updaterVars, calls, lastReturn,
                   rendererVars, launchOrder>>

\* Child i exits; main.js registers no 'exit' or 'close' handler.
ChildExit(i) ==
    /\ appState = "running"
    /\ starts[i].status = "running"
    /\ starts' = [starts EXCEPT ![i].status = "exited"]
    /\ UNCHANGED <<hostVars, flaskProcess, updaterVars, calls, lastReturn,
                   rendererVars, launchOrder>>

\* setInterval(() => autoUpdater.checkForUpdates(), one hour): no .catch.
TimerTick ==
    /\ appState = "running"
    /\ CanCheck
    /\ autoUpdaterCheckForUpdates(mainWindow, FALSE)
    /\ UNCHANGED <<hostVars, sidecarVars, downloading, updateDownloaded, downloadCalls,
                   installPrompts, quitAndInstallBy, installedOnQuit, progressSent,
                   calls, lastReturn, rendererVars, launchOrder>>

\* dialog.showMessageBox(mainWindow, ...) opens the prompt; with a destroyed
\* parent window the call may throw instead.
PromptShown(win) == IF win = "live" THEN {TRUE} ELSE BOOLEAN

\* The feed answers that a newer version exists: 'update-available', handlers
\* main.js:115-128 (prompt) and main.js:216-218 (status).
UpdateAvailable ==
    /\ appState = "running"
    /\ checking
    /\ checking' = FALSE
    /\ \E shown \in PromptShown(mainWindow) :
         cycles' = [cycles EXCEPT ![Len(cycles)].status =
                        IF shown THEN "prompt" ELSE "noPrompt"]
    /\ statusLog' = Delivered(mainWindow, statusLog, "Update available. Downloading...")
    /\ sendFaults' = Faults(mainWindow, sendFaults)
    /\ downloading' = (downloading \/ autoDownload)
    /\ UNCHANGED <<hostVars, sidecarVars, updateDownloaded, downloadCalls,
                   installPrompts, quitAndInstallBy, installedOnQuit, updateErrorBoxes,
                   progressSent, unhandled, calls, lastReturn, rendererVars, launchOrder>>

\* An 'update-not-available' handler that starts a download all the same.
UpdateNotAvailableDownloading ==
    /\ appState = "running"
    /\ checking
    /\ checking' = FALSE
    /\ cycles' = [cycles EXCEPT ![Len(cycles)].status = "noUpdate"]
    /\ statusLog' = Delivered(mainWindow, statusLog, "No updates available")
    /\ sendFaults' = Faults(mainWindow, sendFaults)
    /\ downloading' = TRUE
    /\ downloadCalls' = downloadCalls \cup {Len(cycles)}
    /\ UNCHANGED <<hostVars, sidecarVars, updateDownloaded,
                   installPrompts, quitAndInstallBy, installedOnQuit, updateErrorBoxes,
                   progressSent, unhandled, calls, lastReturn, rendererVars, launchOrder>>

\* The feed answers that there is no newer version: 'update-not-available',
\* handler main.js:220-222.
UpdateNotAvailable ==
    /\ appState = "running"
    /\ checking
    /\ checking' = FALSE
    /\ cycles' = [cycles EXCEPT ![Len(cycles)].status = "noUpdate"]
    /\ statusLog' = Delivered(mainWindow, statusLog, "No updates available")
    /\ sendFaults' = Faults(mainWindow, sendFaults)
    /\ UNCHANGED <<hostVars, sidecarVars, downloading, updateDownloaded, downloadCalls,
                   installPrompts, quitAndInstallBy, installedOnQuit, updateErrorBoxes,
                   progressSent, unhandled, calls, lastReturn, rendererVars, launchOrder>>

\* The check fails: 'error', handlers main.js:145-147 (error box) and
\* main.js:224-226 (status); the promise of the check rejects.
UpdateCheckError ==
    /\ appState = "running"
    /\ checking
    /\ checking' = FALSE
    /\ cycles' = [cycles EXCEPT ![Len(cycles)].status = "error"]
    /\ updateErrorBoxes' = updateErrorBoxes + 1
    /\ statusLog' = Delivered(mainWindow, statusLog, "Error checking for updates")
    /\ sendFaults' = Faults(mainWindow, sendFaults)
    /\ unhandled' = IF cycles[Len(cycles)].caught THEN unhandled ELSE unhandled + 1
    /\ UNCHANGED <<hostVars, sidecarVars, downloading, updateDownloaded, downloadCalls,
                   installPrompts, quitAndInstallBy, installedOnQuit, progressSent,
                   calls, lastReturn, rendererVars, launchOrder>>

\* A prompt handler that downloads whatever the answer.
callsDownloadUpdateAlways(response) == TRUE

\* main.js:124: the download prompt's handler calls downloadUpdate() when the
\* first button ('Yes') was chosen.
callsDownloadUpdate(response) == response = 0

\* The user answers the download prompt of cycle c (main.js:123-127).
AnswerDownloadPrompt(c, response) ==
    /\ appState = "running"
    /\ cycles[c].status = "prompt"
    /\ cycles' = [cycles EXCEPT ![c].status =
                      IF response = 0 THEN "accepted" ELSE "declined"]
    /\ IF callsDownloadUpdate(response)
       THEN /\ downloadCalls' = downloadCalls \cup {c}
            /\ downloading' = TRUE
       ELSE UNCHANGED <<downloadCalls, downloading>>
    /\ UNCHANGED <<hostVars, sidecarVars, checking, updateDownloaded, installPrompts,
                   quitAndInstallBy, installedOnQuit, updateErrorBoxes, statusLog,
                   progressSent, sendFaults, unhandled, calls, lastReturn,
                   rendererVars, launchOrder>>

\* 'download-progress', handler main.js:228-230.  MaxProgress bounds the
\* events modelled, delivered or not.
DownloadProgress ==
    /\ appState = "running"
    /\ downloading
    /\ progressSent + sendFaults < MaxProgress
    /\ progressSent' = IF mainWindow = "live" THEN progressSent + 1 ELSE progressSent
    /\ sendFaults' = Faults(mainWindow, sendFaults)
    /\ UNCHANGED <<hostVars, sidecarVars, checking, downloading, updateDownloaded,
                   cycles, downloadCalls, installPrompts, quitAndInstallBy,
                   installedOnQuit, updateErrorBoxes, statusLog, unhandled, calls,
                   lastReturn, rendererVars, launchOrder>>

\* main.js:232-235: the status handler of 'update-downloaded' calls
\* quitAndInstall() once its send has gone through.
statusHandlerInstalls(win) == win = "live"

\* The download completes: 'update-downloaded', handlers main.js:130-143
\* (prompt) and main.js:232-235 (status, then quitAndInstall).
UpdateDownloaded ==
    /\ appState = "running"
    /\ downloading
    /\ downloading' = FALSE
    /\ updateDownloaded' = TRUE
    /\ \E shown \in PromptShown(mainWindow) :
         installPrompts' = IF shown THEN Append(installPrompts, "pending")
                           ELSE installPrompts
    /\ statusLog' = Delivered(mainWindow, statusLog, "Update downloaded. Restarting...")
    /\ sendFaults' = Faults(mainWindow, sendFaults)
    /\ IF statusHandlerInstalls(mainWindow)
       THEN /\ quitAndInstallBy' = quitAndInstallBy \cup {"statusHandler"}
            /\ quit(TRUE)
       ELSE UNCHANGED <<quitAndInstallBy, hostVars, sidecarVars, installedOnQuit>>
    /\ UNCHANGED <<checking, cycles, downloadCalls, updateErrorBoxes, progressSent,
                   unhandled, calls, lastReturn, rendererVars, launchOrder>>

\* The download fails: 'error' handlers as for a failed check; the promise
\* of downloadUpdate() (main.js:125) has no .catch.
UpdateDownloadError ==
    /\ appState = "running"
    /\ downloading
    /\ downloading' = FALSE
    /\ updateErrorBoxes' = updateErrorBoxes + 1
    /\ statusLog' = Delivered(mainWindow, statusLog, "Error checking for updates")
    /\ sendFaults' = Faults(mainWindow, sendFaults)
    /\ unhandled' = unhandled + 1
    /\ UNCHANGED <<hostVars, sidecarVars, checking, updateDownloaded, cycles,
                   downloadCalls, installPrompts, quitAndInstallBy, installedOnQuit,
                   progressSent, calls, lastReturn, rendererVars, launchOrder>>

\* main.js:139: the install prompt's handler calls quitAndInstall() when the
\* first button ('Yes') was chosen.
callsQuitAndInstall(response) == response = 0

\* The user answers install prompt k (main.js:138-142).
AnswerInstallPrompt(k, response) ==
    /\ appState = "running"
    /\ installPrompts[k] = "pending"
    /\ installPrompts' = [installPrompts EXCEPT ![k] =
                              IF response = 0 THEN "accepted" ELSE "declined"]
    /\ IF callsQuitAndInstall(response)
       THEN /\ quitAndInstallBy' = quitAndInstallBy \cup {"promptHandler"}
            /\ quit(TRUE)
       ELSE UNCHANGED <<quitAndInstallBy, hostVars, sidecarVars, installedOnQuit>>
    /\ UNCHANGED <<checking, downloading, updateDownloaded, cycles, downloadCalls,
                   updateErrorBoxes, statusLog, progressSent, sendFaults, unhandled,
                   calls, lastReturn, rendererVars, launchOrder>>

\* The two buttons of the prompts: 0 is 'Yes', 1 is 'No'.
Responses == {0, 1}

Next ==
    \/ AppReady
    \/ Activate
    \/ WindowAllClosed
    \/ UserQuit
    \/ \E i \in DOMAIN starts : ChildError(i)
    \/ \E i \in DOMAIN starts : ChildExit(i)
    \/ TimerTick
    \/ UpdateAvailable
    \/ UpdateNotAvailable
    \/ UpdateCheckError
    \/ \E c \in DOMAIN cycles, r \in Responses : AnswerDownloadPrompt(c, r)
    \/ DownloadProgress
    \/ UpdateDownloaded
    \/ UpdateDownloadError
    \/ \E k \in DOMAIN installPrompts, r \in Responses : AnswerInstallPrompt(k, r)
    \/ AnalyzeFile
    \/ \E i \in DOMAIN calls, reply \in Replies : AnalyzeSettle(i, reply)
    \/ GetFileInfo
    \/ SelectFileClick
    \/ \E result \in DialogResults : SelectFileSettle(result)
    \/ \E file \in DroppedFiles : Drop(file)
    \/ \E h \in DOMAIN handleFiles, entry \in DiskEntries : HandleFileInfoSettle(h, entry)

\* The whole host.  The supervisor, the update controller and the gateway
\* share nothing but the life cycle of the application and of the sidecar, so
\* each is also given a specification of its own below.
Spec == Init /\ [][Next]_vars

\* The supervisor alone: the life cycle of the application and of the
\* sidecar, with the release feed silent.
SidecarNext ==
    \/ AppReady
    \/ Activate
    \/ WindowAllClosed
    \/ UserQuit
    \/ \E i \in DOMAIN starts : ChildError(i)
    \/ \E i \in DOMAIN starts : ChildExit(i)

SidecarSpec == Init /\ [][SidecarNext]_vars

\* The update controller alone: the life cycle of the application and of
\* the updater, in development mode with a sidecar that raises no event.
UpdaterInit == Init /\ env.isDev

UpdaterNext ==
    \/ AppReady
    \/ Activate
    \/ WindowAllClosed
    \/ UserQuit
    \/ TimerTick
    \/ UpdateAvailable
    \/ UpdateNotAvailable
    \/ UpdateCheckError
    \/ \E c \in DOMAIN cycles, r \in Responses : AnswerDownloadPrompt(c, r)
    \/ DownloadProgress
    \/ UpdateDownloaded
    \/ UpdateDownloadError
    \/ \E k \in DOMAIN installPrompts, r \in Responses : AnswerInstallPrompt(k, r)

UpdaterSpec == UpdaterInit /\ [][UpdaterNext]_vars

\* The host without the gateway: the life cycle of the application, the
\* sidecar and the updater together.
HostNext == SidecarNext \/ UpdaterNext

HostSpec == Init /\ [][HostNext]_vars

\* The gateway alone: analyze-file calls against a sidecar in each of its
\* states, with the release feed silent.
GatewayNext ==
    \/ AppReady
    \/ \E i \in DOMAIN starts : ChildError(i)
    \/ \E i \in DOMAIN starts : ChildExit(i)
    \/ AnalyzeFile
    \/ \E i \in DOMAIN calls, reply \in Replies : AnalyzeSettle(i, reply)

GatewaySpec == Init /\ [][GatewayNext]_vars

\* The gateway over a transport that settles every upload it was handed,
\* with a response or with an error.
TransportSettles(i) ==
    /\ i \in DOMAIN calls
    /\ \E reply \in Replies : AnalyzeSettle(i, reply)

\* The handler never looks at the sidecar or at the build, so the calls are
\* followed on one development build whose sidecar stays as it started.
GatewayLiveNext ==
    \/ AppReady
    \/ AnalyzeFile
    \/ \E i \in DOMAIN calls, reply \in Replies : AnalyzeSettle(i, reply)

GatewayLiveInit == Init /\ env.isDev /\ env.platform = "linux"

GatewayLiveSpec ==
    /\ GatewayLiveInit
    /\ [][GatewayLiveNext]_vars
    /\ \A i \in 1..MaxCalls : WF_vars(TransportSettles(i))

\* The 'get-file-info' handler by itself, over every path and disk entry.
FileInfoNext ==
    \/ AppReady
    \/ GetFileInfo

FileInfoSpec == Init /\ [][FileInfoNext]_vars

\* The renderer: the select button, the drop zone and the handleFile runs
\* they start, with the handlers those runs invoke.
RendererNext ==
    \/ AppReady
    \/ SelectFileClick
    \/ \E result \in DialogResults : SelectFileSettle(result)
    \/ \E file \in DroppedFiles : Drop(file)
    \/ \E h \in DOMAIN handleFiles, entry \in DiskEntries : HandleFileInfoSettle(h, entry)
    \/ \E i \in DOMAIN calls, reply \in Replies : AnalyzeSettle(i, reply)

RendererSpec == Init /\ [][RendererNext]_vars

(* ============================== claims ================================ *)
Spawned == {i \in DOMAIN starts : starts[i].spawned}
FailedStarts == {i \in DOMAIN starts : starts[i].status \in {"resolveFailed", "failed"}}
Accepted == {c \in DOMAIN cycles : cycles[c].status = "accepted"}
Declined == {c \in DOMAIN cycles : cycles[c].status = "declined"}

\* C1: quitAndInstall is invoked only after the install prompt was shown and
\* accepted, whichever 'update-downloaded' handler invokes it.
InstallConfirmationGate ==
    quitAndInstallBy # {} =>
        \E k \in DOMAIN installPrompts : installPrompts[k] = "accepted"

\* C2: downloadUpdate is called only for a check cycle whose prompt the user
\* accepted, never for a declined one, and a download starts only in the step
\* in which a prompt is accepted.
DownloadConfirmationGate ==
    /\ [](/\ downloadCalls \subseteq Accepted
          /\ downloadCalls \cap Declined = {}
          /\ (downloading => downloadCalls # {}))
    /\ [][(~downloading /\ downloading') =>
              \E c \in DOMAIN cycles :
                  cycles[c].status = "prompt" /\ cycles'[c].status = "accepted"]_vars

\* C2 witness: one cycle was declined, a later one accepted, and its download
\* is running.
DownloadAfterAcceptReached == downloading /\ Declined # {} /\ downloadCalls # {}

\* C3: while the controller is Checking or Downloading no step issues
\* another request to the release feed.
NoOverlappingChecks ==
    [][(Checking \/ Downloading) => FeedRequests' = FeedRequests]_vars

\* C4: an analyze-file call started while the sidecar is not Running issues
\* no POST and has returned a Failure when the handler yields.
FailFastWhenNotRunning ==
    [][(Len(calls') > Len(calls) /\ ServiceState # "Running") =>
          /\ calls'[Len(calls')].posts = 0
          /\ calls'[Len(calls')].state = "returned"
          /\ lastReturn'.id = Len(calls')
          /\ ~lastReturn'.result.success]_vars

\* C5: at most one sidecar is spawned per run, and flaskProcess holds the
\* handle of every child spawned.
AtMostOneSidecar ==
    /\ Cardinality(Spawned) <= 1
    /\ \A i \in Spawned : flaskProcess = i

\* C6: once the host process has exited, every child that was still running
\* has been sent a termination signal.
ChildrenSignalledBeforeExit ==
    appState = "exited" =>
        \A i \in DOMAIN starts : starts[i].status = "running" => starts[i].signalled

\* C7: a start that fails (interpreter not resolved, or spawn error) is
\* reported with exactly one error box and spawns nothing when the
\* interpreter is missing; a failed start stays failed, its child is never
\* running and nothing more is reported for it; and startFlaskServer only
\* ever runs as part of creating a window, never in reaction to a failure.
LaunchFailureReportedOnce ==
    /\ [](\A i \in DOMAIN starts :
            /\ (i \in FailedStarts => starts[i].dialogs = 1)
            /\ (i \notin FailedStarts => starts[i].dialogs = 0)
            /\ (starts[i].status = "resolveFailed" => ~starts[i].spawned))
    /\ [][\A i \in FailedStarts : starts'[i] = starts[i]]_vars
    /\ [][Len(starts') > Len(starts) =>
              (mainWindow # "live" /\ mainWindow' = "live"
               /\ Len(starts') = Len(starts) + 1)]_vars

\* C7 witness: a spawn error has been delivered and reported.
SpawnFailureReported ==
    \E i \in DOMAIN starts : starts[i].status = "failed" /\ starts[i].dialogs = 1

\* C8: a sidecar that exits after it was running is reported to the user.
UnexpectedExitSurfaced ==
    \A i \in DOMAIN starts : starts[i].status = "exited" => starts[i].dialogs >= 1

WellFormedSuccess(reply) ==
    /\ reply.kind = "response"
    /\ reply.body.kind = "object"
    /\ reply.body.success = "true"
    /\ IsString(reply.body.reportPath)
WellFormedFailure(reply) ==
    /\ reply.kind = "response"
    /\ reply.body.kind = "object"
    /\ reply.body.success = "false"
    /\ IsString(reply.body.error)

\* C9 as claimed: {success:true, reportPath:X} returns Success with path X and
\* {success:false, error:E} returns Failure with message E, for every X and E.
WellFormedMapping ==
    lastReturn.id # 0 =>
        /\ WellFormedSuccess(lastReturn.reply) =>
              (lastReturn.result.success
               /\ lastReturn.result.path = lastReturn.reply.body.reportPath)
        /\ WellFormedFailure(lastReturn.reply) =>
              (~lastReturn.result.success
               /\ lastReturn.result.error = lastReturn.reply.body.error)

\* C9 amended: as claimed for every X and every non-empty E; an empty E is
\* returned as the message 'Analysis failed'.
WellFormedMappingNonEmpty ==
    lastReturn.id # 0 =>
        /\ WellFormedSuccess(lastReturn.reply) =>
              (lastReturn.result.success
               /\ lastReturn.result.path = lastReturn.reply.body.reportPath)
        /\ WellFormedFailure(lastReturn.reply) =>
              (~lastReturn.result.success
               /\ lastReturn.result.error =
                      IF lastReturn.reply.body.error = "s:"
                      THEN "s:Analysis failed"
                      ELSE lastReturn.reply.body.error)

\* C9 witness: a call has returned the sidecar's own message 'bad format'.
SidecarMessageReturned ==
    /\ lastReturn.id # 0
    /\ WellFormedFailure(lastReturn.reply)
    /\ lastReturn.result.error = "s:bad format"

\* C10: a reply that is neither contract shape, or a transport error, returns
\* a Failure whose message is a non-empty string.
OtherShapesFail ==
    (lastReturn.id # 0
     /\ ~WellFormedSuccess(lastReturn.reply)
     /\ ~WellFormedFailure(lastReturn.reply)) =>
        /\ ~lastReturn.result.success
        /\ IsString(lastReturn.result.error)
        /\ lastReturn.result.error # "s:"

\* C11: when the sidecar refuses the connection, analyze-file resolves (the
\* invoke is not rejected) with a Failure whose message is a non-empty string.
RefusedConnectionIsFailure ==
    (lastReturn.id # 0 /\ lastReturn.reply.kind = "error"
     /\ lastReturn.reply.cause = "refused") =>
        /\ ~lastReturn.threw
        /\ ~lastReturn.result.success
        /\ IsString(lastReturn.result.error)
        /\ lastReturn.result.error # "s:"

\* A refused connection whose error carries no message has been answered.
RefusedWithoutMessageReturned ==
    /\ lastReturn.id # 0
    /\ lastReturn.reply.kind = "error"
    /\ lastReturn.reply.cause = "refused"
    /\ lastReturn.reply.message = "s:"
    /\ lastReturn.result.error = "s:Failed to analyze file"

\* C12: every UI-facing operation completes by returning a result value;
\* no invocation of select-file, get-file-info or analyze-file is rejected,
\* whatever the input.  (select-file has no rejecting path in the model: it
\* returns the chosen path or null.)
OperationsNeverReject ==
    /\ ~infoReturn.threw
    /\ ~lastReturn.threw

\* C13: for a path that does not exist get-file-info fails with the
\* file-access error of stat and hands back no object, not even one with
\* only some of name, size and lastModified.
MissingPathFails ==
    infoReturn.entry.kind = "missing" =>
        /\ infoReturn.threw
        /\ infoReturn.error = "ENOENT"
        /\ infoReturn.value.fields = {}

\* get-file-info has been invoked on a multi-component path that is missing.
MissingPathAsked ==
    /\ infoReturn.entry.kind = "missing"
    /\ Len(infoReturn.path) = MaxPathLen
    /\ infoReturn.threw

\* The base name of a path that names a file: its longest suffix free of
\* separators (and, on win32, of the drive prefix).
BaseNameOf(platform, p) ==
    LET plain(i) == /\ ~isPathSeparator(platform, p[i])
                    /\ ~(platform = "win32" /\ p[i] = "C:")
        k == CHOOSE j \in 1..Len(p) :
                 /\ \A i \in j..Len(p) : plain(i)
                 /\ j = 1 \/ ~plain(j - 1)
    IN  SubSeq(p, k, Len(p))

\* C14: for a path naming a readable file get-file-info returns an object
\* whose size is the file's byte length and whose name is the base name of
\* the path.
ReadableFileInfo ==
    infoReturn.entry.kind = "file" =>
        /\ ~infoReturn.threw
        /\ infoReturn.value.fields = AllFields
        /\ infoReturn.value.size = infoReturn.entry.size
        /\ infoReturn.value.name = BaseNameOf(env.platform, infoReturn.path)

\* A 1024-byte file behind a backslash separator has been described on win32.
WindowsFileDescribed ==
    /\ env.platform = "win32"
    /\ infoReturn.entry.kind = "file"
    /\ infoReturn.entry.size = 1024
    /\ infoReturn.path[1] = "\\"
    /\ Len(infoReturn.path) > 1
    /\ infoReturn.value.size = 1024

\* C15: of the update and sidecar errors only a sidecar launch failure opens
\* a blocking error dialog; an error of an update check or of an update
\* download never opens one.
OnlyLaunchFailureBlocks == updateErrorBoxes = 0

\* C16: at most one analysis request is in flight per UI surface: while one
\* handleFile run (get-file-info, then analyze-file) is pending, neither the
\* select button nor a drop starts a second one.
OneRequestInFlight ==
    Cardinality({h \in DOMAIN handleFiles : InFlight(h)}) <= 1

\* C17: the update-status strings follow the state machine: a status that
\* announces a state is sent only by a step in which the controller has
\* entered that state; 'Update available. Downloading...' is not sent while
\* the download awaits the user's answer or after a decline, and
\* 'Update downloaded. Restarting...' only when the restart has been asked for.
StatusFollowsStateMachine ==
    [][Len(statusLog') > Len(statusLog) =>
          /\ statusLog'[Len(statusLog')] = "Update available. Downloading..."
                => downloading'
          /\ statusLog'[Len(statusLog')] = "Update downloaded. Restarting..."
                => quitAndInstallBy' # {}]_vars

\* The place of a step in the latest createWindow(), 0 when it has no place.
StepOf(op) ==
    IF \E i \in DOMAIN launchOrder : launchOrder[i].op = op
    THEN CHOOSE i \in DOMAIN launchOrder : launchOrder[i].op = op
    ELSE 0

\* C18: on launch the window is created first, then the sidecar is started,
\* then the initial update check is made; nothing is spawned and no check is
\* made before the window exists.
StartupOrdering ==
    /\ mainWindow = "undefined" => (starts = <<>> /\ cycles = <<>>)
    /\ (starts # <<>> \/ cycles # <<>>) => launchOrder # <<>>
    /\ launchOrder # <<>> =>
          /\ 0 < StepOf("BrowserWindow")
          /\ StepOf("BrowserWindow") < StepOf("startFlaskServer")
          /\ StepOf("startFlaskServer") < StepOf("checkForUpdates")
          /\ launchOrder[StepOf("startFlaskServer")].window = "live"
          /\ launchOrder[StepOf("checkForUpdates")].window = "live"

\* The first launch is over: the window was built from nothing, a sidecar
\* was started and the first check went out.
LaunchDone ==
    /\ launchOrder # <<>>
    /\ launchOrder[1].window = "undefined"
    /\ Len(starts) = 1
    /\ Len(cycles) = 1
    /\ cycles[1].request

\* C19: no retry: every analyze-file call issues exactly one POST, and a
\* failed attempt is answered with Failure with no further attempt.
NoRetry ==
    /\ \A i \in DOMAIN calls : calls[i].posts = 1
    /\ (lastReturn.id # 0 /\ lastReturn.reply.kind = "error") =>
          /\ calls[lastReturn.id].state = "returned"
          /\ ~lastReturn.result.success

\* A POST answered with a non-2xx status has been reported to the caller.
FailedAttemptReported ==
    /\ lastReturn.id # 0
    /\ lastReturn.reply.kind = "error"
    /\ lastReturn.reply.cause = "status"
    /\ calls[lastReturn.id].state = "returned"

\* C20: a check that finds no newer version leaves Checking for NoUpdate and
\* the controller is idle again (no check in flight, the download state
\* untouched); that check never gets a download prompt and never starts a
\* download, then or later.
NoUpdateNeverPrompts ==
    [][\A c \in DOMAIN cycles :
          /\ (cycles[c].status = "checking" /\ cycles'[c].status = "noUpdate") =>
                /\ ~checking'
                /\ downloading' = downloading
                /\ downloadCalls' = downloadCalls
                /\ installPrompts' = installPrompts
                /\ mainWindow = "live" =>
                      statusLog' = Append(statusLog, "No updates available")
          /\ cycles[c].status = "noUpdate" =>
                /\ cycles'[c].status = "noUpdate"
                /\ c \notin downloadCalls']_vars

\* A check ended with 'No updates available' and the controller is idle.
NoUpdateReported ==
    /\ cycles # <<>>
    /\ cycles[Len(cycles)].status = "noUpdate"
    /\ ~checking
    /\ ~downloading
    /\ statusLog # <<>>
    /\ statusLog[Len(statusLog)] = "No updates available"

\* C21: the gateway puts no limit on concurrent analyze-file calls: a call
\* started while others are pending issues its own upload, and when an upload
\* settles, in whatever order, its result goes to the call that issued it and
\* to no other; no result is lost or delivered twice.
OwnResultPerCall ==
    [][/\ Len(calls') > Len(calls) =>
             /\ calls'[Len(calls')].posts = 1
             /\ calls'[Len(calls')].state = "pending"
             /\ \A i \in DOMAIN calls : calls'[i] = calls[i]
       /\ \A i \in DOMAIN calls :
             /\ calls[i].state = "returned" => calls'[i] = calls[i]
             /\ (calls[i].state = "pending" /\ calls'[i].state = "returned") =>
                   /\ lastReturn'.id = i
                   /\ lastReturn'.upload = i
                   /\ \A j \in DOMAIN calls : j # i => calls'[j] = calls[j]
       /\ lastReturn' # lastReturn =>
             /\ lastReturn'.id = lastReturn'.upload
             /\ calls[lastReturn'.id].state = "pending"
             /\ calls'[lastReturn'.id].state = "returned"]_vars

\* With every call of the run pending at once, the youngest was answered
\* first and the others are still waiting.
AnsweredOutOfOrder ==
    /\ Len(calls) = MaxCalls
    /\ lastReturn.id = MaxCalls
    /\ calls[MaxCalls].state = "returned"
    /\ \A i \in 1..(MaxCalls - 1) : calls[i].state = "pending"

\* C22: update status and progress notifications are sent only to a window
\* that exists and has not been closed: whenever an updater event handler
\* runs, also for a timer check made after every window was closed while the
\* application keeps running, mainWindow is live.
NotificationsReachLiveWindow == sendFaults = 0

\* C23: every update check, the one at startup and each one of the hourly
\* timer, has its failure handled: a check that fails leaves no unhandled
\* rejection and no check in flight, so that a later tick starts a new one.
CheckFailureHandled ==
    [][\A c \in DOMAIN cycles :
          (cycles[c].status = "checking" /\ cycles'[c].status = "error") =>
              /\ unhandled' = unhandled
              /\ ~checking']_vars

\* C24: every analyze-file call eventually returns, and returns once, given
\* that the transport eventually settles its upload; nothing but the
\* transport ends a pending call (there is no timeout), so with a sidecar
\* that never answers the call stays pending.
EveryCallReturnsOnce ==
    /\ \A i \in 1..MaxCalls :
          (i \in DOMAIN calls /\ calls[i].state = "pending")
              ~> (i \in DOMAIN calls /\ calls[i].state = "returned")
    /\ [][\A i \in DOMAIN calls :
             /\ (calls[i].state = "pending" /\ calls'[i].state # "pending") =>
                   /\ calls'[i].state = "returned"
                   /\ lastReturn'.upload = i
                   /\ lastReturn'.reply.kind \in {"response", "error"}
             /\ calls[i].state = "returned" =>
                   /\ calls'[i].state = "returned"
                   /\ lastReturn' # lastReturn => lastReturn'.upload # i]_vars

\* Every call of the run has returned.
AllCallsReturned ==
    /\ Len(calls) = MaxCalls
    /\ \A i \in DOMAIN calls : calls[i].state = "returned"

====
